---------------------------- MODULE Spec2Model ----------------------------
(***************************************************************************)
(* A model of src/QNXcode.c: a bounded FIFO queue (linked list, two        *)
(* counting semaphores, one mutex) shared by writer threads and reader     *)
(* threads.  Every thread is a process with a program counter; one action  *)
(* is one statement (or one run of statements that touch only the          *)
(* thread's own locals) of enqueue, dequeue, writer_thread, reader_thread. *)
(***************************************************************************)
EXTENDS Integers, Sequences, FiniteSets, Bags, TLC

(***************************************************************************)
(* Bounds of the model.                                                    *)
(***************************************************************************)
\* the size main passes to initializeQueue (100 there)
Capacity == 2
\* payload buffers the writers may allocate in one run
MaxPackets == 3

(***************************************************************************)
(* Program constants.                                                      *)
(***************************************************************************)
\* the buffer size writer_thread allocates and hands to get_external_data
BUF_SIZE == 1024
\* the null pointer
NULL == 0

\* the threads main creates: two of its N writers and two of its M readers
Writers == {1, 2}
Readers == {3, 4}
Threads == Writers \cup Readers

\* addresses malloc returns for a Node: one for every payload buffer
NodeAddrs == 1..MaxPackets

\* values rand() is taken to return
RandVals == {0, 1, BUF_SIZE, BUF_SIZE + 1}

\* DataPacket data = {0}
ZeroPacket == [data |-> NULL, size |-> 0, eventId |-> 0, eventCorrelationId |-> 0]

VARIABLES
    head, tail, count,   \* Queue.head, Queue.tail, Queue.count
    full, empty,         \* the values of the semaphores Queue.full, Queue.empty
    lock,                \* Queue.lock: NULL when free, else the thread that holds it
    nodes,               \* Node addresses allocated and not freed
    next, npkt,          \* Node.next and Node.packet, by address
    bufs,                \* payload buffers (packet.data) allocated and not freed
    nextData,            \* the next payload address malloc(1024) returns
    pc,                  \* where each thread is
    packet,              \* writer_thread's and reader_thread's local `packet`
    newNode,             \* enqueue's local `newNode`, per writer
    temp, data,          \* dequeue's locals `temp` and `data`, per reader
    sent,                \* history: packets enqueue was called with
    appended,            \* history: packets in the order they were linked in
    removed,             \* history: packets in the order they were unlinked
    returned             \* history: bag of the packets dequeue returned

qvars == <<head, tail, count, full, empty, lock, nodes, next, npkt>>
hvars == <<sent, appended, removed, returned>>
vars == <<head, tail, count, full, empty, lock, nodes, next, npkt, bufs,
          nextData, pc, packet, newNode, temp, data,
          sent, appended, removed, returned>>

(***************************************************************************)
(* Pure helpers.                                                           *)
(***************************************************************************)
\* get_external_data: val = rand() % bufferSizeInBytes; -1 if the buffer is
\* smaller than val; else val bytes are copied and val is returned
get_external_data(r, bufferSizeInBytes) ==
    LET val == r % bufferSizeInBytes
    IN  IF bufferSizeInBytes < val THEN -1 ELSE val

\* malloc(sizeof(Node)) when it succeeds: the address of no allocated node.
\* The node allocated for a packet is numbered like the packet's payload
\* buffer, which is allocated before the node and freed after it
malloc_node(p) == p.data

\* sem_wait returns once the value is positive, and decrements it
sem_wait_ready(v) == v > 0
sem_wait_value(v) == v - 1
\* sem_post increments the value
sem_post_value(v) == v + 1

\* the packets linked from a node on, following next
RECURSIVE ListFrom(_, _)
ListFrom(n, fuel) ==
    IF n = NULL \/ fuel = 0 THEN <<>>
    ELSE <<npkt[n]>> \o ListFrom(next[n], fuel - 1)
\* the queue's items, head first
Items == ListFrom(head, MaxPackets + 1)

\* the node addresses linked from a node on
RECURSIVE NodesFrom(_, _)
NodesFrom(n, fuel) ==
    IF n = NULL \/ fuel = 0 THEN <<>>
    ELSE <<n>> \o NodesFrom(next[n], fuel - 1)
Linked == NodesFrom(head, MaxPackets + 1)

SeqToBag(s) == [x \in {s[i] : i \in DOMAIN s} |->
                    Cardinality({i \in DOMAIN s : s[i] = x})]

(***************************************************************************)
(* initializeQueue(&dataQueue, Capacity), and every thread at the top of   *)
(* its loop.                                                               *)
(***************************************************************************)
Init ==
    /\ head = NULL /\ tail = NULL
    /\ count = 0
    /\ full = 0
    /\ empty = Capacity
    /\ lock = NULL
    /\ nodes = {}
    /\ next = [n \in NodeAddrs |-> NULL]
    /\ npkt = [n \in NodeAddrs |-> ZeroPacket]
    /\ bufs = {}
    /\ nextData = 1
    /\ pc = [t \in Threads |-> IF t \in Writers THEN "w_malloc" ELSE "d_semwait"]
    /\ packet = [t \in Threads |-> ZeroPacket]
    /\ newNode = [w \in Writers |-> NULL]
    /\ temp = [r \in Readers |-> NULL]
    /\ data = [r \in Readers |-> ZeroPacket]
    /\ sent = {}
    /\ appended = <<>>
    /\ removed = <<>>
    /\ returned = EmptyBag

goto(t, l) == pc' = [pc EXCEPT ![t] = l]

(***************************************************************************)
(* writer_thread                                                           *)
(***************************************************************************)
\* packet.data = malloc(1024); NULL: go and log; else
\* packet.size = get_external_data(packet.data, 1024) and the ids are set to 0
w_malloc(w) ==
    /\ pc[w] = "w_malloc"
    /\ nextData <= MaxPackets
    /\ \E ok \in BOOLEAN, r \in RandVals :
        IF ok
        THEN /\ packet' = [packet EXCEPT ![w] =
                    [data |-> nextData,
                     size |-> get_external_data(r, BUF_SIZE),
                     eventId |-> 0, eventCorrelationId |-> 0]]
             /\ bufs' = bufs \cup {nextData}
             /\ nextData' = nextData + 1
             /\ goto(w, "w_check")
        ELSE /\ goto(w, "w_mfail")
             /\ UNCHANGED <<packet, bufs, nextData>>
    /\ UNCHANGED <<qvars, newNode, temp, data, hvars>>

\* log_message("Error: Memory allocation failed for data packet."); continue
w_mfail(w) ==
    /\ pc[w] = "w_mfail"
    /\ goto(w, "w_malloc")
    /\ UNCHANGED <<qvars, bufs, nextData, packet, newNode, temp, data, hvars>>

\* w_check with the test packet.size >= 0
w_check_ge(w) ==
    /\ pc[w] = "w_check"
    /\ IF packet[w].size >= 0
       THEN /\ sent' = sent \cup {packet[w]}
            /\ goto(w, "e_malloc")
            /\ UNCHANGED <<bufs, packet>>
       ELSE /\ bufs' = bufs \ {packet[w].data}
            /\ packet' = [packet EXCEPT ![w] = ZeroPacket]
            /\ goto(w, "w_malloc")
            /\ UNCHANGED sent
    /\ UNCHANGED <<qvars, nextData, newNode, temp, data, appended, removed, returned>>

\* if (packet.size > 0) enqueue(&dataQueue, packet); else free(packet.data);
w_check(w) ==
    /\ pc[w] = "w_check"
    /\ IF packet[w].size > 0
       THEN /\ sent' = sent \cup {packet[w]}
            /\ goto(w, "e_malloc")
            /\ UNCHANGED <<bufs, packet>>
       ELSE /\ bufs' = bufs \ {packet[w].data}
            /\ packet' = [packet EXCEPT ![w] = ZeroPacket]
            /\ goto(w, "w_malloc")
            /\ UNCHANGED sent
    /\ UNCHANGED <<qvars, nextData, newNode, temp, data, appended, removed, returned>>

(***************************************************************************)
(* enqueue                                                                 *)
(***************************************************************************)
\* newNode = malloc(sizeof(Node)); NULL: go and log; else fill the node in
e_malloc(w) ==
    /\ pc[w] = "e_malloc"
    /\ \E ok \in BOOLEAN :
        LET n == IF ok THEN malloc_node(packet[w]) ELSE NULL
        IN  IF n = NULL
            THEN /\ goto(w, "e_mfail")
                 /\ UNCHANGED <<nodes, next, npkt, newNode>>
            ELSE /\ nodes' = nodes \cup {n}
                 /\ npkt' = [npkt EXCEPT ![n] = packet[w]]
                 /\ next' = [next EXCEPT ![n] = NULL]
                 /\ newNode' = [newNode EXCEPT ![w] = n]
                 /\ goto(w, "e_semwait")
    /\ UNCHANGED <<head, tail, count, full, empty, lock, bufs, nextData,
                   packet, temp, data, hvars>>

\* log_message("Error: Memory allocation failed for new node."); return
e_mfail(w) ==
    /\ pc[w] = "e_mfail"
    /\ packet' = [packet EXCEPT ![w] = ZeroPacket]
    /\ goto(w, "w_malloc")
    /\ UNCHANGED <<qvars, bufs, nextData, newNode, temp, data, hvars>>

\* e_semwait that returns without decrementing q->empty
e_semwait_keep(w) ==
    /\ pc[w] = "e_semwait"
    /\ sem_wait_ready(empty)
    /\ goto(w, "e_lock")
    /\ UNCHANGED <<head, tail, count, full, empty, lock, nodes, next, npkt,
                   bufs, nextData, packet, newNode, temp, data, hvars>>

\* sem_wait(&q->empty)
e_semwait(w) ==
    /\ pc[w] = "e_semwait"
    /\ sem_wait_ready(empty)
    /\ empty' = sem_wait_value(empty)
    /\ goto(w, "e_lock")
    /\ UNCHANGED <<head, tail, count, full, lock, nodes, next, npkt, bufs,
                   nextData, packet, newNode, temp, data, hvars>>

\* e_lock that does not wait for the mutex
e_lock_nowait(w) ==
    /\ pc[w] = "e_lock"
    /\ lock' = w
    /\ goto(w, "e_link")
    /\ UNCHANGED <<head, tail, count, full, empty, nodes, next, npkt, bufs,
                   nextData, packet, newNode, temp, data, hvars>>

\* pthread_mutex_lock(&q->lock)
e_lock(w) ==
    /\ pc[w] = "e_lock"
    /\ lock = NULL
    /\ lock' = w
    /\ goto(w, "e_link")
    /\ UNCHANGED <<head, tail, count, full, empty, nodes, next, npkt, bufs,
                   nextData, packet, newNode, temp, data, hvars>>

\* e_link with the new node put in front of the list instead of behind it
e_link_front(w) ==
    /\ pc[w] = "e_link"
    /\ next' = [next EXCEPT ![newNode[w]] = head]
    /\ head' = newNode[w]
    /\ tail' = IF tail = NULL THEN newNode[w] ELSE tail
    /\ appended' = Append(appended, npkt[newNode[w]])
    /\ goto(w, "e_count")
    /\ UNCHANGED <<count, full, empty, lock, nodes, npkt, bufs, nextData,
                   packet, newNode, temp, data, sent, removed, returned>>

\* if (q->tail == NULL) head = tail = newNode;
\* else { tail->next = newNode; tail = newNode; }
e_link(w) ==
    /\ pc[w] = "e_link"
    /\ IF tail = NULL
       THEN /\ head' = newNode[w]
            /\ tail' = newNode[w]
            /\ UNCHANGED next
       ELSE /\ next' = [next EXCEPT ![tail] = newNode[w]]
            /\ tail' = newNode[w]
            /\ UNCHANGED head
    /\ appended' = Append(appended, npkt[newNode[w]])
    /\ goto(w, "e_count")
    /\ UNCHANGED <<count, full, empty, lock, nodes, npkt, bufs, nextData,
                   packet, newNode, temp, data, sent, removed, returned>>

\* e_count that goes on to the log call with the mutex still held
e_count_log(w) ==
    /\ pc[w] = "e_count"
    /\ count' = count + 1
    /\ goto(w, "e_log")
    /\ UNCHANGED <<head, tail, full, empty, lock, nodes, next, npkt, bufs,
                   nextData, packet, newNode, temp, data, hvars>>

\* e_count with the increment left out
e_count_skip(w) ==
    /\ pc[w] = "e_count"
    /\ goto(w, "e_unlock")
    /\ UNCHANGED <<qvars, bufs, nextData, packet, newNode, temp, data, hvars>>

\* q->count++
e_count(w) ==
    /\ pc[w] = "e_count"
    /\ count' = count + 1
    /\ goto(w, "e_unlock")
    /\ UNCHANGED <<head, tail, full, empty, lock, nodes, next, npkt, bufs,
                   nextData, packet, newNode, temp, data, hvars>>

\* e_unlock with the mutex left locked
e_unlock_skip(w) ==
    /\ pc[w] = "e_unlock"
    /\ goto(w, "e_post")
    /\ UNCHANGED <<qvars, bufs, nextData, packet, newNode, temp, data, hvars>>

\* pthread_mutex_unlock(&q->lock)
e_unlock(w) ==
    /\ pc[w] = "e_unlock"
    /\ lock' = NULL
    /\ goto(w, "e_post")
    /\ UNCHANGED <<head, tail, count, full, empty, nodes, next, npkt, bufs,
                   nextData, packet, newNode, temp, data, hvars>>

\* e_post with the semaphore posted twice
e_post_twice(w) ==
    /\ pc[w] = "e_post"
    /\ full' = sem_post_value(sem_post_value(full))
    /\ goto(w, "e_log")
    /\ UNCHANGED <<head, tail, count, empty, lock, nodes, next, npkt, bufs,
                   nextData, packet, newNode, temp, data, hvars>>

\* e_post with the sem_post on q->empty
e_post_empty(w) ==
    /\ pc[w] = "e_post"
    /\ empty' = sem_post_value(empty)
    /\ goto(w, "e_log")
    /\ UNCHANGED <<head, tail, count, full, lock, nodes, next, npkt, bufs,
                   nextData, packet, newNode, temp, data, hvars>>

\* e_post without the sem_post
e_post_skip(w) ==
    /\ pc[w] = "e_post"
    /\ goto(w, "e_log")
    /\ UNCHANGED <<head, tail, count, full, empty, lock, nodes, next, npkt,
                   bufs, nextData, packet, newNode, temp, data, hvars>>

\* sem_post(&q->full)
e_post(w) ==
    /\ pc[w] = "e_post"
    /\ full' = sem_post_value(full)
    /\ goto(w, "e_log")
    /\ UNCHANGED <<head, tail, count, empty, lock, nodes, next, npkt, bufs,
                   nextData, packet, newNode, temp, data, hvars>>

\* e_log where the writer frees the payload once enqueue has returned
e_log_free(w) ==
    /\ pc[w] = "e_log"
    /\ bufs' = bufs \ {packet[w].data}
    /\ packet' = [packet EXCEPT ![w] = ZeroPacket]
    /\ newNode' = [newNode EXCEPT ![w] = NULL]
    /\ goto(w, "w_malloc")
    /\ UNCHANGED <<qvars, nextData, temp, data, hvars>>

\* log_message("Data enqueued."); enqueue returns; the loop starts over
e_log(w) ==
    /\ pc[w] = "e_log"
    /\ packet' = [packet EXCEPT ![w] = ZeroPacket]
    /\ newNode' = [newNode EXCEPT ![w] = NULL]
    /\ goto(w, "w_malloc")
    /\ UNCHANGED <<qvars, bufs, nextData, temp, data, hvars>>

(***************************************************************************)
(* reader_thread and dequeue                                               *)
(***************************************************************************)
\* d_semwait that does not wait for the semaphore to be positive
d_semwait_nowait(r) ==
    /\ pc[r] = "d_semwait"
    /\ full' = IF sem_wait_ready(full) THEN sem_wait_value(full) ELSE full
    /\ goto(r, "d_lock")
    /\ UNCHANGED <<head, tail, count, empty, lock, nodes, next, npkt, bufs,
                   nextData, packet, newNode, temp, data, hvars>>

\* reader_thread calls dequeue(&dataQueue), where DataPacket data = {0}, and
\* dequeue does sem_wait(&q->full)
d_semwait(r) ==
    /\ pc[r] = "d_semwait"
    /\ sem_wait_ready(full)
    /\ full' = sem_wait_value(full)
    /\ goto(r, "d_lock")
    /\ UNCHANGED <<head, tail, count, empty, lock, nodes, next, npkt, bufs,
                   nextData, packet, newNode, temp, data, hvars>>

\* pthread_mutex_lock(&q->lock)
d_lock(r) ==
    /\ pc[r] = "d_lock"
    /\ lock = NULL
    /\ lock' = r
    /\ goto(r, "d_check")
    /\ UNCHANGED <<head, tail, count, full, empty, nodes, next, npkt, bufs,
                   nextData, packet, newNode, temp, data, hvars>>

\* if (q->head == NULL) { the "unexpectedly empty" branch } else go on
d_check(r) ==
    /\ pc[r] = "d_check"
    /\ IF head = NULL THEN goto(r, "d_err_unlock") ELSE goto(r, "d_take")
    /\ UNCHANGED <<qvars, bufs, nextData, packet, newNode, temp, data, hvars>>

\* d_take with the head left where it is
d_take_stay(r) ==
    /\ pc[r] = "d_take"
    /\ temp' = [temp EXCEPT ![r] = head]
    /\ data' = [data EXCEPT ![r] = npkt[head]]
    /\ removed' = Append(removed, npkt[head])
    /\ goto(r, "d_tail")
    /\ UNCHANGED <<head, tail, count, full, empty, lock, nodes, next, npkt, bufs,
                   nextData, packet, newNode, sent, appended, returned>>

\* temp = q->head; data = temp->packet; q->head = q->head->next;
d_take(r) ==
    /\ pc[r] = "d_take"
    /\ temp' = [temp EXCEPT ![r] = head]
    /\ data' = [data EXCEPT ![r] = npkt[head]]
    /\ head' = next[head]
    /\ removed' = Append(removed, npkt[head])
    /\ goto(r, "d_tail")
    /\ UNCHANGED <<tail, count, full, empty, lock, nodes, next, npkt, bufs,
                   nextData, packet, newNode, sent, appended, returned>>

\* d_tail that leaves q->tail alone when the list became empty
d_tail_keeptail(r) ==
    /\ pc[r] = "d_tail"
    /\ count' = count - 1
    /\ goto(r, "d_unlock")
    /\ UNCHANGED <<head, tail, full, empty, lock, nodes, next, npkt, bufs,
                   nextData, packet, newNode, temp, data, hvars>>

\* d_tail without the count--
d_tail_keep(r) ==
    /\ pc[r] = "d_tail"
    /\ tail' = IF head = NULL THEN NULL ELSE tail
    /\ goto(r, "d_unlock")
    /\ UNCHANGED <<head, count, full, empty, lock, nodes, next, npkt, bufs,
                   nextData, packet, newNode, temp, data, hvars>>

\* if (q->head == NULL) q->tail = NULL; q->count--;
d_tail(r) ==
    /\ pc[r] = "d_tail"
    /\ tail' = IF head = NULL THEN NULL ELSE tail
    /\ count' = count - 1
    /\ goto(r, "d_unlock")
    /\ UNCHANGED <<head, full, empty, lock, nodes, next, npkt, bufs,
                   nextData, packet, newNode, temp, data, hvars>>

\* pthread_mutex_unlock(&q->lock), on either branch
d_unlock(r) ==
    /\ pc[r] \in {"d_unlock", "d_err_unlock"}
    /\ lock' = NULL
    /\ goto(r, IF pc[r] = "d_unlock" THEN "d_post" ELSE "d_err_log")
    /\ UNCHANGED <<head, tail, count, full, empty, nodes, next, npkt, bufs,
                   nextData, packet, newNode, temp, data, hvars>>

\* d_post that posts q->full instead of q->empty
d_post_full(r) ==
    /\ pc[r] \in {"d_post", "d_err_post"}
    /\ full' = sem_post_value(full)
    /\ goto(r, IF pc[r] = "d_post" THEN "d_free" ELSE "d_ret")
    /\ UNCHANGED <<head, tail, count, empty, lock, nodes, next, npkt, bufs,
                   nextData, packet, newNode, temp, data, hvars>>

\* sem_post(&q->empty), on either branch
d_post(r) ==
    /\ pc[r] \in {"d_post", "d_err_post"}
    /\ empty' = sem_post_value(empty)
    /\ goto(r, IF pc[r] = "d_post" THEN "d_free" ELSE "d_ret")
    /\ UNCHANGED <<head, tail, count, full, lock, nodes, next, npkt, bufs,
                   nextData, packet, newNode, temp, data, hvars>>

\* free(temp)
d_free(r) ==
    /\ pc[r] = "d_free"
    /\ nodes' = nodes \ {temp[r]}
    /\ next' = [next EXCEPT ![temp[r]] = NULL]
    /\ npkt' = [npkt EXCEPT ![temp[r]] = ZeroPacket]
    /\ goto(r, "d_log")
    /\ UNCHANGED <<head, tail, count, full, empty, lock, bufs,
                   nextData, packet, newNode, temp, data, hvars>>

\* log_message("Data dequeued.") or log_message("Error: Tried to dequeue ...")
d_log(r) ==
    /\ pc[r] \in {"d_log", "d_err_log"}
    /\ goto(r, IF pc[r] = "d_log" THEN "d_ret" ELSE "d_err_post")
    /\ UNCHANGED <<qvars, bufs, nextData, packet, newNode, temp, data, hvars>>

\* return data; reader_thread's packet is what dequeue returned
d_ret(r) ==
    /\ pc[r] = "d_ret"
    /\ packet' = [packet EXCEPT ![r] = data[r]]
    /\ returned' = returned (+) SetToBag({data[r]})
    /\ temp' = [temp EXCEPT ![r] = NULL]
    /\ data' = [data EXCEPT ![r] = ZeroPacket]
    /\ goto(r, "r_check")
    /\ UNCHANGED <<qvars, bufs, nextData, newNode, sent, appended, removed>>

\* if (packet.size > 0) { process_data(...); free(packet.data); }
r_check(r) ==
    /\ pc[r] = "r_check"
    /\ IF packet[r].size > 0
       THEN goto(r, "r_process") /\ UNCHANGED packet
       ELSE goto(r, "d_semwait") /\ packet' = [packet EXCEPT ![r] = ZeroPacket]
    /\ UNCHANGED <<qvars, bufs, nextData, newNode, temp, data, hvars>>

\* process_data(packet.data, packet.size): prints and clears the buffer
r_process(r) ==
    /\ pc[r] = "r_process"
    /\ goto(r, "r_free")
    /\ UNCHANGED <<qvars, bufs, nextData, packet, newNode, temp, data, hvars>>

\* free(packet.data); the loop starts over
r_free(r) ==
    /\ pc[r] = "r_free"
    /\ bufs' = bufs \ {packet[r].data}
    /\ packet' = [packet EXCEPT ![r] = ZeroPacket]
    /\ goto(r, "d_semwait")
    /\ UNCHANGED <<qvars, nextData, newNode, temp, data, hvars>>

writer_thread(w) ==
    \/ w_malloc(w) \/ w_mfail(w) \/ w_check(w)
    \/ e_malloc(w) \/ e_mfail(w) \/ e_semwait(w) \/ e_lock(w) \/ e_link(w)
    \/ e_count(w) \/ e_unlock(w) \/ e_post(w) \/ e_log(w)

reader_thread(r) ==
    \/ d_semwait(r) \/ d_lock(r) \/ d_check(r) \/ d_take(r)
    \/ d_tail(r) \/ d_unlock(r) \/ d_post(r) \/ d_free(r) \/ d_log(r)
    \/ d_ret(r) \/ r_check(r) \/ r_process(r) \/ r_free(r)

Next ==
    \/ \E w \in Writers : writer_thread(w)
    \/ \E r \in Readers : reader_thread(r)

Spec == Init /\ [][Next]_vars

(***************************************************************************)
(* The program running without end: initializeQueue(&dataQueue,            *)
(* LoopCapacity) and the loops of one of main's writers and two of its     *)
(* readers.  The writer allocates payload buffers for ever, so malloc      *)
(* hands freed addresses out again, and the histories are not recorded.    *)
(* The statements that allocate or feed a history are restated; every      *)
(* other action is the one above.                                          *)
(***************************************************************************)
\* the threads of this run
LoopWriters == {1}
LoopReaders == {3, 4}
LoopThreads == LoopWriters \cup LoopReaders

\* the size main passes to initializeQueue in this run
LoopCapacity == 1
\* node allocations of enqueue that may fail in this run; each one leaks a
\* payload buffer for good
MaxLeaks == 1
\* the payload addresses of the heap: enough for a full queue, a packet in
\* the hands of every writer and of every reader, and the leaked buffers,
\* so that malloc(1024) never fails for want of an address
LoopAddrs == 1..(LoopCapacity + Cardinality(LoopThreads) + MaxLeaks)

\* malloc(1024) when it succeeds: the least address not in use
malloc_data == IF LoopAddrs \ bufs = {} THEN NULL
               ELSE CHOOSE a \in LoopAddrs \ bufs :
                        \A b \in LoopAddrs \ bufs : a <= b

InitLoop ==
    /\ head = NULL /\ tail = NULL
    /\ count = 0
    /\ full = 0
    /\ empty = LoopCapacity
    /\ lock = NULL
    /\ nodes = {}
    /\ next = [n \in LoopAddrs |-> NULL]
    /\ npkt = [n \in LoopAddrs |-> ZeroPacket]
    /\ bufs = {}
    /\ nextData = 1
    /\ pc = [t \in LoopThreads |->
                IF t \in LoopWriters THEN "w_malloc" ELSE "d_semwait"]
    /\ packet = [t \in LoopThreads |-> ZeroPacket]
    /\ newNode = [w \in LoopWriters |-> NULL]
    /\ temp = [r \in LoopReaders |-> NULL]
    /\ data = [r \in LoopReaders |-> ZeroPacket]
    /\ sent = {}
    /\ appended = <<>>
    /\ removed = <<>>
    /\ returned = EmptyBag

\* packet.data = malloc(1024); NULL (by failure or with the heap used up):
\* go and log; else packet.size = get_external_data(packet.data, 1024)
w_malloc_loop(w) ==
    /\ pc[w] = "w_malloc"
    /\ \E ok \in BOOLEAN, r \in RandVals :
        LET a == IF ok THEN malloc_data ELSE NULL
        IN  IF a # NULL
            THEN /\ packet' = [packet EXCEPT ![w] =
                        [data |-> a,
                         size |-> get_external_data(r, BUF_SIZE),
                         eventId |-> 0, eventCorrelationId |-> 0]]
                 /\ bufs' = bufs \cup {a}
                 /\ goto(w, "w_check")
            ELSE /\ goto(w, "w_mfail")
                 /\ UNCHANGED <<packet, bufs>>
    /\ UNCHANGED <<qvars, nextData, newNode, temp, data, hvars>>

\* if (packet.size > 0) enqueue(&dataQueue, packet); else free(packet.data);
w_check_loop(w) ==
    /\ pc[w] = "w_check"
    /\ IF packet[w].size > 0
       THEN /\ goto(w, "e_malloc")
            /\ UNCHANGED <<bufs, packet>>
       ELSE /\ bufs' = bufs \ {packet[w].data}
            /\ packet' = [packet EXCEPT ![w] = ZeroPacket]
            /\ goto(w, "w_malloc")
    /\ UNCHANGED <<qvars, nextData, newNode, temp, data, hvars>>

\* the payload buffers no thread and no node refers to any more
Leaked == bufs \ ({packet[t].data : t \in LoopThreads}
                  \cup {data[r].data : r \in LoopReaders}
                  \cup {npkt[n].data : n \in nodes})

\* newNode = malloc(sizeof(Node)); NULL: go and log; else fill the node in.
\* The allocation fails MaxLeaks times at most.
e_malloc_loop(w) ==
    /\ pc[w] = "e_malloc"
    /\ \E ok \in BOOLEAN :
        LET n == IF ok THEN malloc_node(packet[w]) ELSE NULL
        IN  IF n = NULL
            THEN /\ Cardinality(Leaked)
                      + Cardinality({v \in LoopWriters : pc[v] = "e_mfail"}) < MaxLeaks
                 /\ goto(w, "e_mfail")
                 /\ UNCHANGED <<nodes, next, npkt, newNode>>
            ELSE /\ nodes' = nodes \cup {n}
                 /\ npkt' = [npkt EXCEPT ![n] = packet[w]]
                 /\ next' = [next EXCEPT ![n] = NULL]
                 /\ newNode' = [newNode EXCEPT ![w] = n]
                 /\ goto(w, "e_semwait")
    /\ UNCHANGED <<head, tail, count, full, empty, lock, bufs, nextData,
                   packet, temp, data, hvars>>

\* if (q->tail == NULL) head = tail = newNode;
\* else { q->tail->next = newNode; q->tail = newNode; }
e_link_loop(w) ==
    /\ pc[w] = "e_link"
    /\ IF tail = NULL
       THEN /\ head' = newNode[w]
            /\ tail' = newNode[w]
            /\ UNCHANGED next
       ELSE /\ next' = [next EXCEPT ![tail] = newNode[w]]
            /\ tail' = newNode[w]
            /\ UNCHANGED head
    /\ goto(w, "e_count")
    /\ UNCHANGED <<count, full, empty, lock, nodes, npkt, bufs, nextData,
                   packet, newNode, temp, data, hvars>>

\* temp = q->head; data = temp->packet; q->head = q->head->next;
d_take_loop(r) ==
    /\ pc[r] = "d_take"
    /\ temp' = [temp EXCEPT ![r] = head]
    /\ data' = [data EXCEPT ![r] = npkt[head]]
    /\ head' = next[head]
    /\ goto(r, "d_tail")
    /\ UNCHANGED <<tail, count, full, empty, lock, nodes, next, npkt, bufs,
                   nextData, packet, newNode, hvars>>

\* return data; packet = dequeue(&dataQueue) in reader_thread
d_ret_loop(r) ==
    /\ pc[r] = "d_ret"
    /\ packet' = [packet EXCEPT ![r] = data[r]]
    /\ temp' = [temp EXCEPT ![r] = NULL]
    /\ data' = [data EXCEPT ![r] = ZeroPacket]
    /\ goto(r, "r_check")
    /\ UNCHANGED <<qvars, bufs, nextData, newNode, hvars>>

writer_loop(w) ==
    \/ w_malloc_loop(w) \/ w_mfail(w) \/ w_check_loop(w)
    \/ e_malloc_loop(w) \/ e_mfail(w) \/ e_semwait(w) \/ e_lock(w)
    \/ e_link_loop(w)
    \/ e_count(w) \/ e_unlock(w) \/ e_post(w) \/ e_log(w)

reader_loop(r) ==
    \/ d_semwait(r) \/ d_lock(r) \/ d_check(r) \/ d_take_loop(r)
    \/ d_tail(r) \/ d_unlock(r) \/ d_post(r) \/ d_free(r) \/ d_log(r)
    \/ d_ret_loop(r) \/ r_check(r) \/ r_process(r) \/ r_free(r)

NextLoop ==
    \/ \E w \in LoopWriters : writer_loop(w)
    \/ \E r \in LoopReaders : reader_loop(r)

SpecLoop == InitLoop /\ [][NextLoop]_vars

\* every thread is scheduled again and again: a step of a thread that stays
\* possible is taken
SpecLive ==
    /\ SpecLoop
    /\ \A w \in LoopWriters : WF_vars(writer_loop(w))
    /\ \A r \in LoopReaders : WF_vars(reader_loop(r))

(***************************************************************************)
(* The whole program: main creates the threads, waits for them in          *)
(* pthread_join and returns 0.  main does not look at the result of        *)
(* pthread_create, so after a failed creation it joins a pthread_t that    *)
(* was never set.  The threads are those of the run above.                 *)
(***************************************************************************)
\* the places of a thread inside its loop
LoopLabels == {"w_malloc", "w_mfail", "w_check",
               "e_malloc", "e_mfail", "e_semwait", "e_lock", "e_link",
               "e_count", "e_unlock", "e_post", "e_log",
               "d_semwait", "d_lock", "d_check", "d_take", "d_tail",
               "d_unlock", "d_err_unlock", "d_post", "d_err_post",
               "d_free", "d_log", "d_err_log", "d_ret",
               "r_check", "r_process", "r_free"}

\* main, as a process next to the threads
Main == 0
\* the order of the pthread_create and of the pthread_join calls: the
\* writers, then the readers
CreateOrder == <<1, 3, 4>>

\* what pthread_join does with a pthread_t that names no thread (undefined):
\* it returns an error that main ignores, it never returns, or the process
\* dies
JoinOutcomes == {"returns", "hangs", "crashes"}

\* initializeQueue(&dataQueue, LoopCapacity); no thread created yet
InitMain ==
    /\ head = NULL /\ tail = NULL
    /\ count = 0
    /\ full = 0
    /\ empty = LoopCapacity
    /\ lock = NULL
    /\ nodes = {}
    /\ next = [n \in LoopAddrs |-> NULL]
    /\ npkt = [n \in LoopAddrs |-> ZeroPacket]
    /\ bufs = {}
    /\ nextData = 1
    /\ pc = [t \in LoopThreads \cup {Main} |->
                IF t = Main THEN "m_create" ELSE "t_none"]
    /\ packet = [t \in LoopThreads |-> ZeroPacket]
    /\ newNode = [w \in LoopWriters |-> NULL]
    /\ temp = [r \in LoopReaders |-> NULL]
    /\ data = [r \in LoopReaders |-> ZeroPacket]
    /\ sent = {}
    /\ appended = <<>>
    /\ removed = <<>>
    /\ returned = EmptyBag

\* the first thread, in the order of main's loops, that is not at one of
\* the labels
FirstNotAt(labels) ==
    LET idx == {i \in DOMAIN CreateOrder : pc[CreateOrder[i]] \notin labels}
    IN  CHOOSE i \in idx : \A j \in idx : i <= j

\* pthread_create(&writers[i], NULL, writer_thread, NULL), then the same for
\* the readers; the result is not looked at
m_create ==
    /\ pc[Main] = "m_create"
    /\ LET i == FirstNotAt(LoopLabels \cup {"t_failed"})
           t == CreateOrder[i]
       IN  \E ok \in BOOLEAN :
             pc' = [pc EXCEPT
                      ![t] = IF ~ok THEN "t_failed"
                             ELSE IF t \in LoopWriters THEN "w_malloc"
                             ELSE "d_semwait",
                      ![Main] = IF i = Len(CreateOrder) THEN "m_join"
                                ELSE "m_create"]
    /\ UNCHANGED <<qvars, bufs, nextData, packet, newNode, temp, data, hvars>>

\* pthread_join(writers[i], NULL), then the same for the readers: returns
\* when the thread has returned; on a pthread_t never set, any of JoinOutcomes
m_join ==
    /\ pc[Main] = "m_join"
    /\ LET i == FirstNotAt({"t_joined"})
           t == CreateOrder[i]
           after == IF i = Len(CreateOrder) THEN "m_return" ELSE "m_join"
       IN  IF pc[t] = "t_failed"
           THEN \E out \in JoinOutcomes :
                  pc' = IF out = "returns"
                        THEN [pc EXCEPT ![t] = "t_joined", ![Main] = after]
                        ELSE IF out = "hangs"
                        THEN [pc EXCEPT ![Main] = "m_hung"]
                        ELSE [pc EXCEPT ![Main] = "m_crashed"]
           ELSE /\ pc[t] \in {"w_return", "r_return"}
                /\ pc' = [pc EXCEPT ![t] = "t_joined", ![Main] = after]
    /\ UNCHANGED <<qvars, bufs, nextData, packet, newNode, temp, data, hvars>>

\* return 0: the process ends, and its threads with it
m_return ==
    /\ pc[Main] = "m_return"
    /\ goto(Main, "m_exited")
    /\ UNCHANGED <<qvars, bufs, nextData, packet, newNode, temp, data, hvars>>

\* the process is alive
Running == pc[Main] \notin {"m_exited", "m_crashed"}

NextMain ==
    \/ m_create
    \/ m_join
    \/ m_return
    \/ Running /\ \E w \in LoopWriters : writer_loop(w)
    \/ Running /\ \E r \in LoopReaders : reader_loop(r)

SpecMain == InitMain /\ [][NextMain]_vars

(***************************************************************************)
(* Vocabulary of the properties.                                           *)
(***************************************************************************)
Range(s) == {s[i] : i \in DOMAIN s}

IsPrefix(s, t) == Len(s) <= Len(t) /\ SubSeq(t, 1, Len(s)) = s

\* the writer is inside a call of enqueue
InEnqueue(w) == pc[w] \in {"e_malloc", "e_mfail", "e_semwait", "e_lock",
                           "e_link", "e_count", "e_unlock", "e_post", "e_log"}

\* the reader has unlinked a packet and dequeue has not returned it yet
Holding(r) == pc[r] \in {"d_tail", "d_unlock", "d_post", "d_free", "d_log", "d_ret"}
              /\ temp[r] # NULL

\* the packets unlinked by a dequeue that has not returned yet
InFlight == LET hs == {r \in Readers : Holding(r)}
            IN  [p \in {data[r] : r \in hs} |->
                    Cardinality({r \in hs : data[r] = p})]

(***************************************************************************)
(* C1. Strict FIFO: at every moment the sequence of packets unlinked by    *)
(* dequeue (in the order of the removals under the lock) is a prefix of    *)
(* the sequence of packets linked in by enqueue (in the order of the       *)
(* appends under the lock), and what is still linked from head is exactly  *)
(* the rest of that sequence, in order.                                    *)
(***************************************************************************)
C1_Fifo ==
    /\ IsPrefix(removed, appended)
    /\ appended = removed \o Items

\* two packets were removed, and they had been appended against the order in
\* which their payloads were allocated: the order kept is the append order
C1_Witness ==
    /\ Len(removed) >= 2
    /\ removed[1].data > removed[2].data
    /\ removed[1] = appended[1] /\ removed[2] = appended[2]

(***************************************************************************)
(* C2. No loss, no duplication: the bag of packets removed by dequeue plus *)
(* the bag of packets linked in the queue is the bag of packets appended   *)
(* by enqueue; the bag of packets dequeue has returned plus those a        *)
(* dequeue has unlinked and not returned yet is the bag removed; and once  *)
(* as many packets were returned as enqueue was called with, the bag       *)
(* returned is the bag enqueue was called with.                            *)
(***************************************************************************)
C2_NoLossNoDup ==
    /\ SeqToBag(removed) (+) SeqToBag(Items) = SeqToBag(appended)
    /\ returned (+) InFlight = SeqToBag(removed)
    /\ BagCardinality(returned) = Cardinality(sent) => returned = SetToBag(sent)

\* every payload buffer of the run was handed to enqueue, went through the
\* queue and was returned by dequeue
C2_Witness ==
    /\ Cardinality(sent) = MaxPackets
    /\ BagCardinality(returned) = MaxPackets
    /\ returned = SetToBag(sent)

(***************************************************************************)
(* C3. Count invariant: whenever the mutex is free, 0 <= count <= Capacity *)
(* and count is the number of nodes linked from head.                      *)
(***************************************************************************)
C3_CountInvariant ==
    lock = NULL =>
        /\ 0 <= count /\ count <= Capacity
        /\ count = Len(Linked)

\* the mutex is free and the queue is full
C3_Witness == lock = NULL /\ count = Capacity /\ Len(Linked) = Capacity

\* calls of enqueue that have returned
EnqReturned == Cardinality(sent) - Cardinality({w \in Writers : InEnqueue(w)})

\* every reader is still at its first sem_wait(&q->full)
NoDequeueYet == removed = <<>> /\ \A r \in Readers : pc[r] = "d_semwait"

(***************************************************************************)
(* C4. Bounded capacity: once Capacity packets are appended and while no   *)
(* dequeue has got past its wait, no further call of enqueue returns: at   *)
(* most Capacity calls of enqueue have returned.                           *)
(***************************************************************************)
C4_BoundedCapacity ==
    (NoDequeueYet /\ Len(appended) = Capacity) => EnqReturned <= Capacity

\* appends whose sem_post(&q->full) is done
Posted == Len(appended)
          - Cardinality({w \in Writers : pc[w] \in {"e_count", "e_unlock", "e_post"}})

\* readers past sem_wait(&q->full) that have not unlinked yet
PastWait == {r \in Readers : pc[r] \in {"d_lock", "d_check", "d_take"}}

(***************************************************************************)
(* C5. Blocking wakeup: a dequeue on an empty queue cannot get past        *)
(* sem_wait(&q->full); every enqueue that has appended and posted lets     *)
(* exactly one dequeuer past that wait (the dequeuers past the wait, those *)
(* that have removed and the value of the semaphore add up to the posts);  *)
(* and a dequeuer that was let through holds a packet that was appended,   *)
(* the k-th to remove the k-th appended.                                   *)
(***************************************************************************)
C5_BlockingWakeup ==
    /\ Items = <<>> => ~sem_wait_ready(full)
    /\ full + Cardinality(PastWait) + Len(removed) = Posted
    /\ \A r \in Readers : Holding(r) =>
          \E k \in 1..Len(removed) : k <= Len(appended) /\ data[r] = appended[k]

\* both readers waited on the empty queue, one enqueue has posted, one reader
\* got through and holds that packet, the other is still blocked
C5_Witness ==
    \E r1, r2 \in Readers :
        /\ r1 # r2
        /\ Len(appended) = 1 /\ Posted = 1
        /\ Holding(r1) /\ data[r1] = appended[1]
        /\ pc[r2] = "d_semwait" /\ ~sem_wait_ready(full)

\* threads kept at a sem_wait by a semaphore at 0
BlockedEnqueuers == {w \in Writers : pc[w] = "e_semwait" /\ ~sem_wait_ready(empty)}
BlockedDequeuers == {r \in Readers : pc[r] = "d_semwait" /\ ~sem_wait_ready(full)}

\* enqueuers that hold a slot and have not incremented count yet
SlotTakers == {w \in Writers : pc[w] \in {"e_lock", "e_link", "e_count"}}
\* dequeuers that have decremented count and not given the slot back yet
SlotGivers == {r \in Readers : pc[r] \in {"d_unlock", "d_post"}}
\* enqueuers that have incremented count and not posted the item yet
ItemGivers == {w \in Writers : pc[w] \in {"e_unlock", "e_post"}}
\* dequeuers that hold an item and have not decremented count yet
ItemTakers == {r \in Readers : pc[r] \in {"d_lock", "d_check", "d_take", "d_tail"}}

(***************************************************************************)
(* C6. Blocking conditions.  As claimed: a thread is blocked at            *)
(* sem_wait(&q->empty) only if count = Capacity, and a thread is blocked   *)
(* at sem_wait(&q->full) only if count = 0.                                *)
(***************************************************************************)
C6_ExactBlocking ==
    /\ BlockedEnqueuers # {} => count = Capacity
    /\ BlockedDequeuers # {} => count = 0

(***************************************************************************)
(* C6, amended.  The semaphores count the slots and items not spoken for:  *)
(* empty = Capacity - count - (enqueuers between their wait and count++)   *)
(* - (dequeuers between count-- and their post), and full = count -        *)
(* (enqueuers between count++ and their post) - (dequeuers between their   *)
(* wait and count--).  So a thread is blocked in enqueue only if count =   *)
(* Capacity, and in dequeue only if count = 0, when no other thread is     *)
(* between its sem_wait and its sem_post.                                  *)
(***************************************************************************)
C6_BlockingAccounted ==
    /\ empty = Capacity - count - Cardinality(SlotTakers) - Cardinality(SlotGivers)
    /\ full = count - Cardinality(ItemGivers) - Cardinality(ItemTakers)
    /\ (BlockedEnqueuers # {} /\ SlotTakers = {} /\ SlotGivers = {})
          => count = Capacity
    /\ (BlockedDequeuers # {} /\ ItemGivers = {} /\ ItemTakers = {})
          => count = 0

\* a writer is blocked on a full queue while no thread is between its wait
\* and its post
C6_Witness ==
    /\ BlockedEnqueuers # {}
    /\ SlotTakers = {} /\ SlotGivers = {} /\ ItemGivers = {} /\ ItemTakers = {}
    /\ count = Capacity

(***************************************************************************)
(* C7. dequeue never takes its "unexpectedly empty" branch: a reader that  *)
(* is about to test q->head under the lock finds it non-NULL, no reader is *)
(* ever on that branch, and every packet dequeue has returned is one that  *)
(* enqueue appended (so never the zero packet).                            *)
(***************************************************************************)
C7_NeverEmptyBranch ==
    /\ \A r \in Readers : pc[r] = "d_check" => head # NULL
    /\ \A r \in Readers : pc[r] \notin {"d_err_unlock", "d_err_log", "d_err_post"}
    /\ \A p \in BagToSet(returned) : p \in Range(appended) /\ p # ZeroPacket

\* one item is linked, one reader tests q->head under the lock and the other
\* reader is kept at its wait
C7_Witness ==
    \E r1, r2 \in Readers :
        /\ pc[r1] = "d_check" /\ Len(Items) = 1
        /\ pc[r2] = "d_semwait" /\ ~sem_wait_ready(full)

(***************************************************************************)
(* C8. enqueue never fails: the packet of every call of enqueue that has   *)
(* returned was appended to the queue.                                     *)
(***************************************************************************)
C8_EnqueueNeverFails ==
    \A p \in sent :
        \/ p \in Range(appended)
        \/ \E w \in Writers : InEnqueue(w) /\ packet[w] = p

\* where a label is in the sequence wait (1), lock (2), mutate (3),
\* unlock (4), post (5); 0 elsewhere
Phase(l) ==
    CASE l \in {"e_semwait", "d_semwait"} -> 1
      [] l \in {"e_lock", "d_lock"} -> 2
      [] l \in {"e_link", "e_count", "d_check", "d_take", "d_tail"} -> 3
      [] l \in {"e_unlock", "d_unlock", "d_err_unlock"} -> 4
      [] l \in {"e_post", "d_post", "d_err_post"} -> 5
      [] OTHER -> 0

\* who may hold the mutex
C9_HeldOnlyInside ==
    /\ \A t \in Threads : Phase(pc[t]) = 1 => lock # t
    /\ \A t \in Threads : lock = t <=> Phase(pc[t]) \in {3, 4}

\* what one step of a thread may do to its place in the sequence
C9_InOrder ==
    \A t \in Threads :
        LET a == Phase(pc[t])
            b == Phase(pc'[t])
        IN  /\ \/ b = a
               \/ a \in 1..4 /\ b = a + 1
               \/ a = 5 /\ b = 0
               \/ a = 0 /\ b = 1
            /\ (a = 1 /\ b = 2 /\ t \in Writers) => empty' = empty - 1 /\ full' = full
            /\ (a = 1 /\ b = 2 /\ t \in Readers) => full' = full - 1 /\ empty' = empty
            /\ (a = 2 /\ b = 3) => lock = NULL /\ lock' = t
            /\ (a = 3 /\ b = 3) => lock' = t
            /\ (a = 4 /\ b = 5) => lock' = NULL
            /\ (a = 5 /\ b = 0 /\ t \in Writers) => full' = full + 1 /\ empty' = empty
            /\ (a = 5 /\ b = 0 /\ t \in Readers) => empty' = empty + 1 /\ full' = full

(***************************************************************************)
(* C9. Lock discipline: a thread waiting on a semaphore does not hold the  *)
(* mutex; a thread holds the mutex exactly between its lock and its        *)
(* unlock; and every thread goes through wait, lock, mutate, unlock, post  *)
(* in that order, the wait taking one unit of its own semaphore and the    *)
(* post adding one to the other.                                           *)
(***************************************************************************)
C9_LockDiscipline == []C9_HeldOnlyInside /\ [][C9_InOrder]_vars

\* a writer is blocked at sem_wait(&q->empty) while a reader holds the mutex
C9_Witness ==
    \E w \in Writers :
        /\ pc[w] = "e_semwait" /\ ~sem_wait_ready(empty)
        /\ lock \in Readers

\* no packet of size <= 0 was handed to enqueue or stored
C10_StoredSizesPositive ==
    /\ \A p \in sent : p.size > 0
    /\ \A i \in DOMAIN appended : appended[i].size > 0
    /\ \A i \in DOMAIN Items : Items[i].size > 0

\* the step of a writer from the size test when size <= 0
C10_DiscardStep ==
    \A w \in Writers :
        (pc[w] = "w_check" /\ packet[w].size <= 0 /\ pc'[w] # pc[w]) =>
            /\ pc'[w] = "w_malloc"
            /\ UNCHANGED <<head, tail, count, full, empty, lock, nodes, next,
                           npkt, sent, appended>>

(***************************************************************************)
(* C10. Zero-length discard: a writer whose read returned a length <= 0    *)
(* goes back to the top of its loop without calling enqueue, and that step *)
(* changes neither the list, nor count, nor a semaphore; every packet      *)
(* handed to enqueue, and so every packet stored, has size > 0.            *)
(***************************************************************************)
C10_ZeroLengthDiscard == []C10_StoredSizesPositive /\ [][C10_DiscardStep]_vars

\* one packet is stored; a second read returned length 0 (rand() gave
\* BUF_SIZE or 0), its buffer was freed and nothing else was handed to enqueue
C10_Witness ==
    /\ nextData = 3
    /\ Cardinality(sent) = 1 /\ Len(Items) = 1 /\ count = 1
    /\ bufs = {p.data : p \in sent}
    /\ \A w \in Writers : pc[w] = "w_malloc"

\* the threads that may still touch payload d, and the queue's references to
\* it: a writer up to the step that links it in, the nodes that store it, the
\* reader whose dequeue unlinked it, the reader that got it from dequeue
Owners(d) ==
    Cardinality({w \in Writers :
                    /\ pc[w] \in {"w_check", "e_malloc", "e_semwait", "e_lock", "e_link"}
                    /\ packet[w].data = d})
    + Cardinality({i \in DOMAIN Items : Items[i].data = d})
    + Cardinality({r \in Readers : Holding(r) /\ data[r].data = d})
    + Cardinality({r \in Readers :
                    /\ pc[r] \in {"r_check", "r_process", "r_free"}
                    /\ packet[r].data = d})

\* the readers that got payload d from dequeue and have not freed it yet
Consuming(d) == {r \in Readers : /\ pc[r] \in {"r_check", "r_process", "r_free"}
                                 /\ packet[r].data = d}

C11_Owned ==
    \* no payload has two owners
    /\ \A d \in 1..MaxPackets : Owners(d) <= 1
    \* a stored packet is returned by one dequeue at most
    /\ \A p \in Range(appended) : CopiesIn(p, returned (+) InFlight) <= 1
    \* the buffer is allocated when it is processed and when it is freed
    /\ \A r \in Readers :
          pc[r] \in {"r_process", "r_free"} => packet[r].data \in bufs
    \* a stored payload stays allocated until the reader that got it frees it
    /\ \A p \in Range(appended) :
          IF BagIn(p, returned)
          THEN (p.data \in bufs) = (Cardinality(Consuming(p.data)) = 1)
          ELSE p.data \in bufs /\ Consuming(p.data) = {}

\* a buffer is freed by the reader that holds it after process_data, or by
\* the writer that read a length <= 0 into it and never called enqueue with it
C11_FreeStep ==
    \A d \in bufs \ bufs' :
        \/ \E r \in Readers :
              /\ pc[r] = "r_free" /\ pc'[r] = "d_semwait"
              /\ packet[r].data = d
        \/ \E w \in Writers :
              /\ pc[w] = "w_check" /\ pc'[w] = "w_malloc"
              /\ packet[w].data = d
              /\ \A p \in sent : p.data # d

(***************************************************************************)
(* C11. Exclusive ownership and single release: a stored packet is         *)
(* returned to one reader at most, its payload is processed and freed by   *)
(* that reader only and once; no writer frees or touches a payload after   *)
(* calling enqueue with it; no payload is freed twice or owned by two      *)
(* threads at once.                                                        *)
(***************************************************************************)
C11_ExclusiveOwnership == []C11_Owned /\ [][C11_FreeStep]_vars

\* a reader has freed the payload of a stored packet that dequeue returned
\* to it, while another reader is about to free a different one
C11_Witness ==
    /\ \E p \in Range(appended) : BagIn(p, returned) /\ p.data \notin bufs
    /\ \E r \in Readers : pc[r] = "r_free" /\ packet[r].data \in bufs

\* the thread waits in sem_wait or in pthread_mutex_lock and cannot go on
Blocked(t) ==
    \/ pc[t] = "e_semwait" /\ ~sem_wait_ready(empty)
    \/ pc[t] = "d_semwait" /\ ~sem_wait_ready(full)
    \/ pc[t] \in {"e_lock", "d_lock"} /\ lock # NULL

(***************************************************************************)
(* C13. Deadlock freedom: in no reachable state is every thread blocked in *)
(* sem_wait or on the mutex; some thread can always take a step.           *)
(***************************************************************************)
C13_DeadlockFree == \E t \in LoopThreads : ~Blocked(t)

\* the queue is full, every writer waits for a slot, one reader waits for
\* an item: all threads but one are blocked
C13_Witness ==
    /\ \A w \in LoopWriters : pc[w] = "e_semwait" /\ Blocked(w)
    /\ Cardinality({t \in LoopThreads : Blocked(t)}) = Cardinality(LoopThreads) - 1

\* the payload at address d is in a packet stored in the list
Stored(d) == \E i \in DOMAIN Items : Items[i].data = d
\* a dequeue has just returned the packet with the payload at address d
ReturnedTo(d) == \E r \in LoopReaders : pc[r] = "r_check" /\ packet[r].data = d
\* an enqueue that stored its packet is about to return
EnqueueCompletes == \E w \in LoopWriters : pc[w] = "e_log"
\* a dequeue has just returned
DequeueCompletes == \E r \in LoopReaders : pc[r] = "r_check"

\* every stored packet is returned by a dequeue later on
C14_Delivered == \A d \in LoopAddrs : Stored(d) ~> ReturnedTo(d)

\* C14 as stated: every stored packet is eventually returned by a dequeue,
\* and enqueues as well as dequeues complete again and again
C14_Progress ==
    /\ C14_Delivered
    /\ []<>EnqueueCompletes
    /\ []<>DequeueCompletes

(***************************************************************************)
(* C14. Liveness, with every thread scheduled fairly: every packet stored  *)
(* by enqueue is eventually returned by a dequeue; and if enqueues         *)
(* complete again and again, so do dequeues.                               *)
(***************************************************************************)
C14_DeliveredAndFollowed ==
    /\ C14_Delivered
    /\ []<>EnqueueCompletes => []<>DequeueCompletes

\* a dequeue returns a stored packet while the next one is already stored
C14_Witness ==
    \E d \in LoopAddrs :
        /\ ReturnedTo(d)
        /\ \E e \in LoopAddrs \ {d} : Stored(e)

\* the thread is between pthread_mutex_lock and pthread_mutex_unlock
InCritical(t) == pc[t] \in {"e_link", "e_count", "e_unlock",
                            "d_check", "d_take", "d_tail", "d_unlock", "d_err_unlock"}

C15_OneInside == Cardinality({t \in Threads : InCritical(t)}) <= 1

\* the step writes the next pointer of a node that is allocated after it:
\* newNode->next = NULL on the node that enqueue has just allocated, or a
\* change of the next pointer of an older node
WritesNext(n) ==
    /\ n \in nodes'
    /\ \/ n \notin nodes
       \/ next'[n] # next[n]

\* the step is a step of the thread that holds the mutex, inside the critical
\* section, and of no other thread
HolderStep ==
    \E t \in Threads :
        /\ lock = t /\ lock' = t
        /\ InCritical(t) /\ pc'[t] # pc[t]
        /\ \A u \in Threads \ {t} : pc'[u] = pc[u]

\* a step that writes head, tail, count or the next pointer of any node is a
\* step of the thread that holds the mutex
C15_WriteStep ==
    (\/ head' # head \/ tail' # tail \/ count' # count
     \/ \E n \in NodeAddrs : WritesNext(n)) => HolderStep

(***************************************************************************)
(* C15. Mutual exclusion: at most one thread is between                    *)
(* pthread_mutex_lock and pthread_mutex_unlock, and head, tail, count and  *)
(* any node's next pointer are written only by the thread that holds the   *)
(* mutex.                                                                  *)
(***************************************************************************)
C15_MutualExclusion == []C15_OneInside /\ [][C15_WriteStep]_vars

\* a step that writes head, tail, count or the next pointer of a node linked
\* in the list is a step of the thread that holds the mutex; any other write
\* of a next pointer is enqueue's newNode->next = NULL, made without the
\* mutex by the thread that has just allocated the node, on a node that is
\* not linked and that no other thread holds
C15_LinkedWriteStep ==
    /\ (\/ head' # head \/ tail' # tail \/ count' # count
        \/ \E n \in Range(Linked) : WritesNext(n)) => HolderStep
    /\ \A n \in NodeAddrs \ Range(Linked) :
          WritesNext(n) =>
              \E w \in Writers :
                  /\ pc[w] = "e_malloc" /\ pc'[w] = "e_semwait"
                  /\ lock # w /\ lock' = lock
                  /\ n \notin nodes /\ newNode'[w] = n /\ next'[n] = NULL
                  /\ \A u \in Writers \ {w} : newNode'[u] # n
                  /\ \A r \in Readers : temp'[r] # n

(***************************************************************************)
(* C15, amended. At most one thread is between pthread_mutex_lock and      *)
(* pthread_mutex_unlock, and head, tail, count and the next pointer of any *)
(* node linked in the list are written only by the thread that holds the   *)
(* mutex; the next pointer of a node that is not linked is written only by *)
(* the enqueue that has just allocated it, before it takes the mutex.      *)
(***************************************************************************)
C15_ListWrittenUnderLock == []C15_OneInside /\ [][C15_LinkedWriteStep]_vars

\* a thread inside the critical section is about to write the list while
\* another thread waits in pthread_mutex_lock and a third has initialised
\* the next pointer of its new node without the mutex
C15_Witness ==
    \E t \in Threads, u \in Threads, w \in Writers :
        /\ t # u /\ w # t /\ w # u
        /\ lock = t /\ pc[t] \in {"e_link", "d_take"}
        /\ pc[u] \in {"e_lock", "d_lock"}
        /\ pc[w] = "e_semwait" /\ newNode[w] \in nodes \ Range(Linked)

\* the places where the next statement of a thread is a log_message call, a
\* call of get_external_data or process_data, a malloc or a free
IoLabels == {"w_malloc", "w_mfail", "w_check", "e_malloc", "e_mfail", "e_log",
             "d_free", "d_log", "d_err_log", "r_process", "r_free"}

C16_HolderNotInIo == \A t \in Threads : lock = t => pc[t] \notin IoLabels

\* a step that allocates or frees a node or a payload, and every step from
\* one of the places above, is made by a thread that does not hold the mutex
C16_IoStep ==
    \A t \in Threads :
        (/\ pc'[t] # pc[t]
         /\ \/ nodes' # nodes \/ bufs' # bufs
            \/ pc[t] \in IoLabels) => (lock # t /\ lock' # t)

(***************************************************************************)
(* C16. The critical section holds only the splice and the counter update: *)
(* a thread that holds the mutex is never at a log write, a source or sink *)
(* call, an allocation or a free; the node malloc of enqueue, the node     *)
(* free of dequeue and every log_message call, the one of dequeue's        *)
(* empty-list branch too, are made with the mutex released.                *)
(***************************************************************************)
C16_CriticalSectionOnlySplices == []C16_HolderNotInIo /\ [][C16_IoStep]_vars

\* a dequeue is at its log call, after the unlock and the free, and an
\* enqueue is at its node allocation, while a third thread holds the mutex
C16_Witness ==
    /\ \E r \in Readers : pc[r] = "d_log" /\ lock # r
    /\ \E w \in Writers : pc[w] = "e_malloc" /\ lock # w
    /\ lock # NULL

\* the steps that change count or the stored items: in enqueue the link
\* step appends the caller's packet and the next statement adds 1 to count;
\* in dequeue the unlink step drops the first item and the statement after
\* the tail fix takes 1 from count
C17_QueueStep ==
    /\ count' # count =>
          \/ /\ count' = count + 1
             /\ \E w \in Writers : pc[w] = "e_count" /\ pc'[w] = "e_unlock" /\ lock = w
          \/ /\ count' = count - 1
             /\ \E r \in Readers : pc[r] = "d_tail" /\ pc'[r] = "d_unlock" /\ lock = r
    /\ Items' # Items =>
          \/ \E w \in Writers :
                /\ pc[w] = "e_link" /\ pc'[w] = "e_count"
                /\ Items' = Append(Items, packet[w])
          \/ \E r \in Readers :
                /\ pc[r] = "d_take" /\ pc'[r] = "d_tail"
                /\ Items # <<>> /\ Items' = Tail(Items)
    /\ \A w \in Writers :
          (pc[w] = "e_count" /\ pc'[w] # pc[w]) => count' = count + 1
    /\ \A r \in Readers :
          (pc[r] = "d_tail" /\ pc'[r] # pc[r]) => count' = count - 1

(***************************************************************************)
(* C17. Queue transitions: every step that changes count adds exactly 1    *)
(* and belongs to the append of an enqueue, or takes exactly 1 and belongs *)
(* to the removal of a dequeue; no other step changes count or the stored  *)
(* items, and the stored items change by one item at a time.               *)
(***************************************************************************)
C17_OneItemAtATime == [][C17_QueueStep]_vars

\* a reader that unlinked an item is about to take 1 from the count of a
\* full queue while a writer waits in enqueue for the slot
C17_Witness ==
    /\ \E r \in Readers : pc[r] = "d_tail" /\ lock = r /\ count = Capacity
    /\ \E w \in Writers : pc[w] = "e_semwait"

(***************************************************************************)
(* C18. The program never terminates: no writer and no reader leaves its   *)
(* while (1) loop, no pthread_join of main completes and main never        *)
(* reaches return 0.                                                       *)
(***************************************************************************)
C18_NeverTerminates ==
    /\ \A t \in LoopThreads : pc[t] \notin {"w_return", "r_return", "t_joined"}
    /\ pc[Main] \notin {"m_return", "m_exited"}

\* the threads that have returned from sem_wait in enqueue or dequeue and
\* have not yet executed the sem_post of that call
InTransit ==
    {w \in Writers : pc[w] \in {"e_lock", "e_link", "e_count", "e_unlock", "e_post"}}
    \cup
    {r \in Readers : pc[r] \in {"d_lock", "d_check", "d_take", "d_tail",
                                "d_unlock", "d_post",
                                "d_err_unlock", "d_err_log", "d_err_post"}}

(***************************************************************************)
(* C19. Semaphore accounting: in every state the value of empty, the value *)
(* of full and the number of threads between the sem_wait and the sem_post *)
(* of an enqueue or dequeue add up to the capacity; full <= count and      *)
(* count <= capacity - empty.                                              *)
(***************************************************************************)
C19_SemaphoreAccounting ==
    /\ empty + full + Cardinality(InTransit) = Capacity
    /\ full <= count
    /\ count <= Capacity - empty

\* two threads are between their sem_wait and sem_post, and both
\* inequalities are strict
C19_Witness ==
    /\ Cardinality(InTransit) = 2
    /\ full < count
    /\ count < Capacity - empty

\* with the mutex free: head, tail and count agree on emptiness, and the
\* tail of a non-empty list is its last node and has no successor
C20_ShapeUnlocked ==
    lock = NULL =>
        /\ (head = NULL) = (tail = NULL)
        /\ (head = NULL) = (count = 0)
        /\ head # NULL => /\ tail = Linked[Len(Linked)]
                          /\ next[tail] = NULL

\* the nodes of the list and the nodes the threads go through are allocated;
\* the node a dequeue frees is off the list and is not freed twice
C20_NoFreedNode ==
    /\ \A i \in DOMAIN Linked : Linked[i] \in nodes
    /\ (lock = NULL /\ tail # NULL) => tail \in nodes
    /\ \A w \in Writers :
          /\ pc[w] \in {"e_semwait", "e_lock", "e_link"} => newNode[w] \in nodes
          /\ (pc[w] = "e_link" /\ tail # NULL) => tail \in nodes
    /\ \A r \in Readers :
          /\ pc[r] = "d_take" => head \in nodes
          /\ pc[r] = "d_free" =>
                /\ temp[r] \in nodes
                /\ temp[r] \notin Range(Linked) /\ temp[r] # tail
          /\ (pc[r] \in {"d_log", "d_ret"} /\ temp[r] # NULL) =>
                /\ temp[r] \notin nodes
                /\ temp[r] \notin Range(Linked) /\ temp[r] # tail

(***************************************************************************)
(* C20. Shape of the list: whenever the mutex is free, head == NULL iff    *)
(* tail == NULL iff count == 0, and the tail of a non-empty list is the    *)
(* last node reachable from head, with next == NULL; a node freed by       *)
(* dequeue is reachable neither from head nor from tail, and no thread     *)
(* dereferences a freed node.                                              *)
(***************************************************************************)
C20_ListShape == C20_ShapeUnlocked /\ C20_NoFreedNode

\* the mutex is free, two nodes are linked, and a dequeue has freed the
\* node it unlinked
C20_Witness ==
    /\ lock = NULL /\ Len(Linked) = 2
    /\ \E r \in Readers : pc[r] \in {"d_log", "d_ret"} /\ temp[r] # NULL
                            /\ temp[r] \notin nodes

=============================================================================
